---- MODULE Spec2Model ----
(***************************************************************************)
(* A model of fsm.hpp: the generic transition engine FSM<State, Condition> *)
(* and the single-symbol rule matcher TextFSM::checkSymbol.                *)
(*                                                                         *)
(* States are small naturals, conditions (input symbols) are small        *)
(* naturals, and a std::function<bool(Condition)> predicate is the set of  *)
(* conditions it accepts.  Characters of the rule matcher are their ASCII  *)
(* codes, a pattern is the sequence of its characters without the          *)
(* terminating null byte.                                                  *)
(***************************************************************************)
EXTENDS Integers, Sequences, FiniteSets, TLC

VARIABLES
    default_state,    \* FSM::default_state
    current_state,    \* FSM::current_state
    previous_state,   \* FSM::previous_state
    possible_states,  \* FSM::possible_states
    edges,            \* FSM::edges, the vector of every state (empty when the map has no key)
    global_edges,     \* FSM::global_edges
    state_names,      \* FSM::state_names
    start_state,      \* the start state the constructor was given
    last,             \* the last call: its arguments, results and the edges it took
    rule,             \* checkSymbol: the pattern
    sym,              \* checkSymbol: the symbol
    idx,              \* checkSymbol: the scan index (0-based, as in the code)
    direct,           \* checkSymbol: false once a '^' was scanned
    previous_symbol,  \* checkSymbol: the pattern character of the previous iteration
    pc,               \* checkSymbol: "scan" while in the loop, "done" after return
    result,           \* checkSymbol: the returned value
    max_read          \* checkSymbol: the largest pattern index read so far

engine_vars == <<default_state, current_state, previous_state, possible_states,
                 edges, global_edges, state_names, start_state, last>>
rule_vars == <<rule, sym, idx, direct, previous_symbol, pc, result, max_read>>
vars == <<default_state, current_state, previous_state, possible_states,
          edges, global_edges, state_names, start_state, last,
          rule, sym, idx, direct, previous_symbol, pc, result, max_read>>

----------------------------------------------------------------------------
(* Bounds of the model *)

MaxBuild == 2

States == {0, 1}
DefaultStates == States
Conds == {0, 1}
\* the predicates an edge can be registered with: the sets of accepted conditions
Rules == (SUBSET Conds) \ {{}}
Labels == { <<"\\", "d">> }
StateNameStrings == { "name" }

NoState == 0 - 1
NoCond == 0 - 1

----------------------------------------------------------------------------
(* EdgeFlag *)

E_NONE == 0
E_SILENT == 1
E_GLOBAL == 2

\* the flags a caller passes
CallerFlags == { E_NONE, E_SILENT }

RECURSIVE BitAnd(_, _)
BitAnd(a, b) ==
    IF a = 0 \/ b = 0 THEN 0
    ELSE (a % 2) * (b % 2) + 2 * BitAnd(a \div 2, b \div 2)

RECURSIVE BitOr(_, _)
BitOr(a, b) ==
    IF a = 0 THEN b
    ELSE IF b = 0 THEN a
    ELSE (IF a % 2 = 1 \/ b % 2 = 1 THEN 1 ELSE 0) + 2 * BitOr(a \div 2, b \div 2)

BoolToInt(b) == IF b THEN 1 ELSE 0

\* a variant of silentExpr: the flags compared with E_SILENT as a whole
silentExprWholeFlags(flags) == flags = E_SILENT

\* a variant of silentExpr: any flag set makes the edge silent
silentExprAnyFlag(flags) == flags # E_NONE

\* `flags & E_SILENT == E_SILENT`: == binds tighter than &, so the expression
\* is flags & (E_SILENT == E_SILENT), converted to bool
silentExpr(flags) == BitAnd(flags, BoolToInt(E_SILENT = E_SILENT)) # 0

----------------------------------------------------------------------------
(* Edge *)

RECURSIVE escapeLabel(_)
escapeLabel(edge_label) ==
    IF edge_label = <<>> THEN <<>>
    ELSE LET c == Head(edge_label) IN
         (IF c = "\\" THEN <<c, c>> ELSE <<c>>) \o escapeLabel(Tail(edge_label))

Edge(source, destination, r, edge_label, flags) ==
    [source |-> source, destination |-> destination, rule |-> r,
     label |-> escapeLabel(edge_label), flags |-> flags]

\* Edge(): the fields are never read before getEdge assigns the edge
NoEdge == [source |-> NoState, destination |-> NoState, rule |-> {},
           label |-> <<>>, flags |-> E_NONE]

----------------------------------------------------------------------------
(* FSM *)

\* a variant of firstAccepting: the edge registered last wins
RECURSIVE lastAccepting(_, _, _)
lastAccepting(list, i, cond) ==
    IF i > Len(list) THEN 0
    ELSE LET later == lastAccepting(list, i + 1, cond) IN
         IF later # 0 THEN later
         ELSE IF cond \in list[i].rule THEN i
         ELSE 0

\* the range-for of getEdge: the first edge of the list, from position i on,
\* whose rule accepts cond; 0 when there is none
RECURSIVE firstAccepting(_, _, _)
firstAccepting(list, i, cond) ==
    IF i > Len(list) THEN 0
    ELSE IF cond \in list[i].rule THEN i
    ELSE firstAccepting(list, i + 1, cond)

\* a variant of getEdge: the global edges are searched before the local ones
getEdgeGlobalFirst(state, cond) ==
    LET l == firstAccepting(edges[state], 1, cond)
        g == firstAccepting(global_edges, 1, cond)
    IN IF g # 0 THEN [found |-> TRUE, edge |-> global_edges[g]]
       ELSE IF l # 0 THEN [found |-> TRUE, edge |-> edges[state][l]]
       ELSE [found |-> FALSE, edge |-> NoEdge]

\* edges[current_state] inserts an empty vector when the map has no key for
\* the state; every read of the map treats a missing key and an empty vector
\* alike, so `edges` holds the vector of every state and is left as it is
getEdge(state, cond) ==
    LET l == firstAccepting(edges[state], 1, cond)
        g == firstAccepting(global_edges, 1, cond)
    IN IF l # 0 THEN [found |-> TRUE, edge |-> edges[state][l]]
       ELSE IF g # 0 THEN [found |-> TRUE, edge |-> global_edges[g]]
       ELSE [found |-> FALSE, edge |-> NoEdge]

changeState(destination) == destination

\* a variant of processBody: a symbol no edge accepts resets to default_state
processBodyReset(from, cond) ==
    LET r1 == getEdge(from, cond) IN
    IF r1.found
    THEN LET s1 == changeState(r1.edge.destination)
             p1 == ~ silentExpr(r1.edge.flags)
             r2 == getEdge(s1, cond)
         IN IF s1 = default_state /\ r2.found
            THEN [state |-> changeState(r2.edge.destination),
                  passed |-> (p1 \/ ~ silentExpr(r2.edge.flags)),
                  taken |-> <<r1.edge, r2.edge>>]
            ELSE [state |-> s1, passed |-> p1, taken |-> <<r1.edge>>]
    ELSE [state |-> default_state, passed |-> FALSE, taken |-> <<>>]

\* a variant of processBody: no second dispatch in default_state
processBodyOnce(from, cond) ==
    LET r1 == getEdge(from, cond) IN
    IF r1.found
    THEN [state |-> changeState(r1.edge.destination),
          passed |-> ~ silentExpr(r1.edge.flags),
          taken |-> <<r1.edge>>]
    ELSE [state |-> from, passed |-> FALSE, taken |-> <<>>]

\* a variant of processBody: the second dispatch is made in whatever state
\* the first transition reached
processBodyAlways(from, cond) ==
    LET r1 == getEdge(from, cond) IN
    IF r1.found
    THEN LET s1 == changeState(r1.edge.destination)
             p1 == ~ silentExpr(r1.edge.flags)
             r2 == getEdge(s1, cond)
         IN IF r2.found
            THEN [state |-> changeState(r2.edge.destination),
                  passed |-> (p1 \/ ~ silentExpr(r2.edge.flags)),
                  taken |-> <<r1.edge, r2.edge>>]
            ELSE [state |-> s1, passed |-> p1, taken |-> <<r1.edge>>]
    ELSE [state |-> from, passed |-> FALSE, taken |-> <<>>]

\* the body of process(cond) from the state `from`: the state reached, the
\* value returned and the edges taken
processBody(from, cond) ==
    LET r1 == getEdge(from, cond) IN
    IF r1.found
    THEN LET s1 == changeState(r1.edge.destination)
             p1 == ~ silentExpr(r1.edge.flags)
             r2 == getEdge(s1, cond)
         IN IF s1 = default_state /\ r2.found
            THEN [state |-> changeState(r2.edge.destination),
                  passed |-> (p1 \/ ~ silentExpr(r2.edge.flags)),
                  taken |-> <<r1.edge, r2.edge>>]
            ELSE [state |-> s1, passed |-> p1, taken |-> <<r1.edge>>]
    ELSE [state |-> from, passed |-> FALSE, taken |-> <<>>]

previousState == previous_state
currentState == current_state
stateName(state) == IF state \in DOMAIN state_names THEN state_names[state] ELSE ""

\* what is recorded of a call: op, the symbol given (cond), current_state on
\* entry (entry), the value returned (ret), the edges process applied (taken),
\* the two reference arguments of the three-argument process, and for the
\* value form of createEdge/createGlobalEdge the value given and the edge stored
Call(op, cond, entry, ret, taken, ended_state, state_changed) ==
    [op |-> op, cond |-> cond, entry |-> entry, ret |-> ret, taken |-> taken,
     ended_state |-> ended_state, state_changed |-> state_changed,
     value |-> NoCond, edge |-> NoEdge]

BuildCall(op) == Call(op, NoCond, NoState, FALSE, <<>>, NoState, FALSE)

ValueCall(op, v, e) == [BuildCall(op) EXCEPT !.value = v, !.edge = e]

RuleIdle ==
    /\ rule = <<>> /\ sym = 0 /\ idx = 0 /\ direct = TRUE
    /\ previous_symbol = 0 /\ pc = "idle" /\ result = FALSE /\ max_read = 0

\* FSM(default_state) and FSM(default_state, start_state)
InitFSM ==
    \/ \E d \in DefaultStates :
           /\ default_state = d
           /\ current_state = d
           /\ previous_state = d
           /\ possible_states = {d}
           /\ edges = [q \in States |-> <<>>]
           /\ global_edges = <<>>
           /\ state_names = <<>>
           /\ start_state = d
           /\ last = BuildCall("FSM(default_state)")
    \/ \E d \in DefaultStates, s \in States :
           /\ default_state = d
           /\ current_state = s
           /\ previous_state = s
           /\ possible_states = {d, s}
           /\ edges = [q \in States |-> <<>>]
           /\ global_edges = <<>>
           /\ state_names = <<>>
           /\ start_state = s
           /\ last = BuildCall("FSM(default_state, start_state)")

Init == InitFSM /\ RuleIdle

\* the number of registrations so far (edges and state names)
RECURSIVE SumLen(_, _)
SumLen(m, S) ==
    IF S = {} THEN 0
    ELSE LET q == CHOOSE x \in S : TRUE IN Len(m[q]) + SumLen(m, S \ {q})

BuildCount == Len(global_edges) + SumLen(edges, States) + Cardinality(DOMAIN state_names)

\* a variant of createEdge: the source is not added to possible_states
createEdgeNoSource(source, destination, r, label, flags) ==
    /\ BuildCount < MaxBuild
    /\ edges' = [edges EXCEPT ![source] = Append(@, Edge(source, destination, r, label, flags))]
    /\ possible_states' = possible_states \cup {destination}
    /\ last' = BuildCall("createEdge")
    /\ UNCHANGED <<default_state, current_state, previous_state, global_edges,
                   state_names, start_state>>
    /\ UNCHANGED rule_vars

createEdge(source, destination, r, label, flags) ==
    /\ BuildCount < MaxBuild
    /\ edges' = [edges EXCEPT ![source] = Append(@, Edge(source, destination, r, label, flags))]
    /\ possible_states' = possible_states \cup {source, destination}
    /\ last' = BuildCall("createEdge")
    /\ UNCHANGED <<default_state, current_state, previous_state, global_edges,
                   state_names, start_state>>
    /\ UNCHANGED rule_vars

\* a variant of createGlobalEdge: the destination is not added to possible_states
createGlobalEdgeNoInsert(destination, r, label, flags) ==
    /\ BuildCount < MaxBuild
    /\ global_edges' = Append(global_edges,
                              Edge(default_state, destination, r, label, BitOr(flags, E_GLOBAL)))
    /\ last' = BuildCall("createGlobalEdge")
    /\ UNCHANGED <<default_state, current_state, previous_state, possible_states, edges,
                   state_names, start_state>>
    /\ UNCHANGED rule_vars

\* flags | E_GLOBAL is an int that the call converts back to EdgeFlag (g++
\* takes the conversion under -fpermissive only); the edge stores the union
createGlobalEdge(destination, r, label, flags) ==
    /\ BuildCount < MaxBuild
    /\ global_edges' = Append(global_edges,
                              Edge(default_state, destination, r, label, BitOr(flags, E_GLOBAL)))
    /\ possible_states' = possible_states \cup {destination}
    /\ last' = BuildCall("createGlobalEdge")
    /\ UNCHANGED <<default_state, current_state, previous_state, edges,
                   state_names, start_state>>
    /\ UNCHANGED rule_vars

setStateName(state, state_name) ==
    /\ state \in DOMAIN state_names \/ BuildCount < MaxBuild
    /\ state_names' = [q \in DOMAIN state_names \cup {state} |->
                          IF q = state THEN state_name ELSE state_names[q]]
    /\ last' = BuildCall("setStateName")
    /\ UNCHANGED <<default_state, current_state, previous_state, possible_states,
                   edges, global_edges, start_state>>
    /\ UNCHANGED rule_vars

\* a variant of process: the edges of the state are searched once only, the
\* first of them is dropped when the call takes an edge
processConsuming(cond) ==
    LET b == processBody(current_state, cond) IN
    /\ previous_state' = current_state
    /\ current_state' = b.state
    /\ edges' = [edges EXCEPT ![current_state] =
                     IF b.taken # <<>> /\ @ # <<>> THEN Tail(@) ELSE @]
    /\ last' = Call("process", cond, current_state, b.passed, b.taken, NoState, FALSE)
    /\ UNCHANGED <<default_state, possible_states, global_edges,
                   state_names, start_state>>
    /\ UNCHANGED rule_vars

\* bool process(Condition cond)
process(cond) ==
    LET b == processBody(current_state, cond) IN
    /\ previous_state' = current_state
    /\ current_state' = b.state
    /\ last' = Call("process", cond, current_state, b.passed, b.taken, NoState, FALSE)
    /\ UNCHANGED <<default_state, possible_states, edges, global_edges,
                   state_names, start_state>>
    /\ UNCHANGED rule_vars

\* a variant of processOut: ended_state receives the state reached
processOutReached(cond) ==
    LET b == processBody(current_state, cond) IN
    /\ previous_state' = current_state
    /\ current_state' = b.state
    /\ last' = Call("processOut", cond, current_state, b.passed, b.taken,
                    currentState', b.passed)
    /\ UNCHANGED <<default_state, possible_states, edges, global_edges,
                   state_names, start_state>>
    /\ UNCHANGED rule_vars

\* void process(Condition cond, State& ended_state, bool& state_changed)
processOut(cond) ==
    LET b == processBody(current_state, cond) IN
    /\ previous_state' = current_state
    /\ current_state' = b.state
    /\ last' = Call("processOut", cond, current_state, b.passed, b.taken,
                    previousState', b.passed)
    /\ UNCHANGED <<default_state, possible_states, edges, global_edges,
                   state_names, start_state>>
    /\ UNCHANGED rule_vars

Next ==
    \/ \E s \in States, d \in States, r \in Rules, l \in Labels, f \in CallerFlags :
           createEdge(s, d, r, l, f)
    \/ \E d \in States, r \in Rules, l \in Labels, f \in CallerFlags :
           createGlobalEdge(d, r, l, f)
    \/ \E s \in States, n \in StateNameStrings : setStateName(s, n)
    \/ \E c \in Conds : process(c)
    \/ \E c \in Conds : processOut(c)

Spec == Init /\ [][Next]_vars

----------------------------------------------------------------------------
(* The value form of createEdge and createGlobalEdge.                       *)
(*                                                                          *)
(* Edge(State, State, Condition rule, ...) initialises the member           *)
(* std::function<bool(Condition)> rule from the Condition value and never   *)
(* assigns simple_rule; no line of the source compares a symbol with the    *)
(* value.  The initialisation is ill-formed (a Condition is not callable),  *)
(* so the source fixes no predicate for such an edge: the predicate is any  *)
(* set of conditions.                                                       *)

ValueRules == SUBSET Conds

createEdgeValue(source, destination, v, label, flags) ==
    \E r \in ValueRules :
        LET e == Edge(source, destination, r, label, flags) IN
        /\ BuildCount < MaxBuild
        /\ edges' = [edges EXCEPT ![source] = Append(@, e)]
        /\ possible_states' = possible_states \cup {source, destination}
        /\ last' = ValueCall("createEdgeValue", v, e)
        /\ UNCHANGED <<default_state, current_state, previous_state, global_edges,
                       state_names, start_state>>
        /\ UNCHANGED rule_vars

createGlobalEdgeValue(destination, v, label, flags) ==
    \E r \in ValueRules :
        LET e == Edge(default_state, destination, r, label, BitOr(flags, E_GLOBAL)) IN
        /\ BuildCount < MaxBuild
        /\ global_edges' = Append(global_edges, e)
        /\ possible_states' = possible_states \cup {destination}
        /\ last' = ValueCall("createGlobalEdgeValue", v, e)
        /\ UNCHANGED <<default_state, current_state, previous_state, edges,
                       state_names, start_state>>
        /\ UNCHANGED rule_vars

NextValue ==
    \/ \E s \in States, d \in States, v \in Conds, l \in Labels, f \in CallerFlags :
           createEdgeValue(s, d, v, l, f)
    \/ \E d \in States, v \in Conds, l \in Labels, f \in CallerFlags :
           createGlobalEdgeValue(d, v, l, f)
    \/ \E c \in Conds : process(c)

SpecValue == Init /\ [][NextValue]_vars

----------------------------------------------------------------------------
(* TextFSM: the rule matcher *)

MaxLen == 3

CH_NUL == 0
CH_TAB == 9
CH_NEWLINE == 10
CH_SPACE == 32
CH_HYPHEN == 45
CH_DOT == 46
CH_0 == 48
CH_5 == CH_0 + 5
CH_9 == 57
CH_A == 65
CH_Z == 90
CH_BACKSLASH == 92
CH_CARET == 94
CH_UNDERSCORE == CH_CARET + 1
CH_a == 97
CH_d == 100
CH_n == 110
CH_s == 115
CH_t == 116
CH_w == 119
CH_z == 122

\* "abcdefghijklmnopqrstuvwxyz" "ABCDEFGHIJKLMNOPQRSTUVWXYZ" "0123456789"
alphabet ==
    [i \in 1 .. 26 |-> CH_a + (i - 1)] \o [i \in 1 .. 26 |-> CH_A + (i - 1)]
        \o [i \in 1 .. 10 |-> CH_0 + (i - 1)]

isLetter(c) == (c >= CH_a /\ c <= CH_z) \/ (c >= CH_A /\ c <= CH_Z)
isNumber(c) == c >= CH_0 /\ c <= CH_9
\* a variant of isSpace: the newline counts as a space
isSpaceNewline(c) == c = CH_SPACE \/ c = CH_TAB \/ c = CH_NEWLINE
isSpace(c) == c = CH_SPACE \/ c = CH_TAB

\* strlen(rule)
strlen(r) == Len(r)

\* rule[i] of the C string: the characters, then the terminating null byte.
\* A read past the terminator has no value here.
charAt(r, i) ==
    CASE i >= 0 /\ i < Len(r) -> r[i + 1]
      [] i = Len(r) -> CH_NUL

\* a variant of alphabetScan: the range taken in byte order
byteRange(alph_idx, inside, lower, upper, s) == lower <= s /\ s <= upper

\* the inner loop of the range branch, from alph_idx on: TRUE when it
\* returns (sym lies inside), FALSE when it breaks or runs off the alphabet
RECURSIVE alphabetScan(_, _, _, _, _)
alphabetScan(alph_idx, inside, lower, upper, s) ==
    IF alph_idx >= Len(alphabet) THEN FALSE
    ELSE LET a == alphabet[alph_idx + 1]
             now_inside == inside \/ a = lower
         IN IF now_inside /\ s = a THEN TRUE
            ELSE IF a = upper THEN FALSE
            ELSE alphabetScan(alph_idx + 1, now_inside, lower, upper, s)

\* a variant of escapeMatches: the terminator after a last backslash is taken
\* for the escape of the null byte
escapeMatchesTerminator(e, s) ==
    CASE e = CH_BACKSLASH -> s = CH_BACKSLASH
      [] e = CH_CARET -> s = CH_CARET
      [] e = CH_HYPHEN -> s = CH_HYPHEN
      [] e = CH_DOT -> s = CH_DOT
      [] e = CH_w -> isLetter(s)
      [] e = CH_d -> isNumber(s)
      [] e = CH_s -> isSpace(s)
      [] e = CH_n -> s = CH_NEWLINE
      [] e = CH_t -> s = CH_TAB
      [] e = CH_0 \/ e = CH_NUL -> s = CH_NUL
      [] OTHER -> FALSE

\* the switch of the escape branch: TRUE when a case returns
escapeMatches(e, s) ==
    CASE e = CH_BACKSLASH -> s = CH_BACKSLASH
      [] e = CH_CARET -> s = CH_CARET
      [] e = CH_HYPHEN -> s = CH_HYPHEN
      [] e = CH_DOT -> s = CH_DOT
      [] e = CH_w -> isLetter(s)
      [] e = CH_d -> isNumber(s)
      [] e = CH_s -> isSpace(s)
      [] e = CH_n -> s = CH_NEWLINE
      [] e = CH_t -> s = CH_TAB
      [] e = CH_0 -> s = CH_NUL
      [] OTHER -> FALSE

\* the highest index of rule read when the range branch returns: the inner
\* loop reads rule[idx], the upper bound, after the return test of each
\* alphabet position, so a return at the first position has not read it
rangeRead(i, prev, s) ==
    IF alphabet[1] = prev /\ s = alphabet[1] THEN i ELSE i + 1

\* a variant of loopBody: a matching literal returns true, negated or not
loopBodyLiteralTrue(r, s, i, d, prev) ==
    LET c == charAt(r, i) IN
    IF c = CH_CARET
    THEN [returns |-> FALSE, idx |-> i + 1, direct |-> FALSE,
          previous_symbol |-> c, read |-> i]
    ELSE IF c = CH_DOT
    THEN [returns |-> TRUE, idx |-> i, direct |-> d,
          previous_symbol |-> prev, read |-> i]
    ELSE IF c = CH_HYPHEN
    THEN IF alphabetScan(0, FALSE, prev, charAt(r, i + 1), s)
         THEN [returns |-> TRUE, idx |-> i + 1, direct |-> d,
               previous_symbol |-> prev, read |-> rangeRead(i, prev, s)]
         ELSE [returns |-> FALSE, idx |-> i + 2, direct |-> d,
               previous_symbol |-> charAt(r, i + 1), read |-> i + 1]
    ELSE IF c = CH_BACKSLASH
    THEN IF escapeMatches(charAt(r, i + 1), s)
         THEN [returns |-> TRUE, idx |-> i + 1, direct |-> d,
               previous_symbol |-> prev, read |-> i + 1]
         ELSE [returns |-> FALSE, idx |-> i + 2, direct |-> d,
               previous_symbol |-> charAt(r, i + 1), read |-> i + 1]
    ELSE IF c = s
    THEN [returns |-> TRUE, idx |-> i, direct |-> TRUE,
          previous_symbol |-> prev, read |-> i]
    ELSE [returns |-> FALSE, idx |-> i + 1, direct |-> d,
          previous_symbol |-> c, read |-> i]

\* a variant of loopBody: '.' returns true, negated or not
loopBodyDotTrue(r, s, i, d, prev) ==
    LET c == charAt(r, i) IN
    IF c = CH_CARET
    THEN [returns |-> FALSE, idx |-> i + 1, direct |-> FALSE,
          previous_symbol |-> c, read |-> i]
    ELSE IF c = CH_DOT
    THEN [returns |-> TRUE, idx |-> i, direct |-> TRUE,
          previous_symbol |-> prev, read |-> i]
    ELSE IF c = CH_HYPHEN
    THEN IF alphabetScan(0, FALSE, prev, charAt(r, i + 1), s)
         THEN [returns |-> TRUE, idx |-> i + 1, direct |-> d,
               previous_symbol |-> prev, read |-> rangeRead(i, prev, s)]
         ELSE [returns |-> FALSE, idx |-> i + 2, direct |-> d,
               previous_symbol |-> charAt(r, i + 1), read |-> i + 1]
    ELSE IF c = CH_BACKSLASH
    THEN IF escapeMatches(charAt(r, i + 1), s)
         THEN [returns |-> TRUE, idx |-> i + 1, direct |-> d,
               previous_symbol |-> prev, read |-> i + 1]
         ELSE [returns |-> FALSE, idx |-> i + 2, direct |-> d,
               previous_symbol |-> charAt(r, i + 1), read |-> i + 1]
    ELSE IF c = s
    THEN [returns |-> TRUE, idx |-> i, direct |-> d,
          previous_symbol |-> prev, read |-> i]
    ELSE [returns |-> FALSE, idx |-> i + 1, direct |-> d,
          previous_symbol |-> c, read |-> i]

\* a variant of loopBody: the '^' branch does not advance idx
loopBodyCaretStays(r, s, i, d, prev) ==
    LET c == charAt(r, i) IN
    IF c = CH_CARET
    THEN [returns |-> FALSE, idx |-> i, direct |-> FALSE,
          previous_symbol |-> c, read |-> i]
    ELSE IF c = CH_DOT
    THEN [returns |-> TRUE, idx |-> i, direct |-> d,
          previous_symbol |-> prev, read |-> i]
    ELSE IF c = CH_HYPHEN
    THEN IF alphabetScan(0, FALSE, prev, charAt(r, i + 1), s)
         THEN [returns |-> TRUE, idx |-> i + 1, direct |-> d,
               previous_symbol |-> prev, read |-> rangeRead(i, prev, s)]
         ELSE [returns |-> FALSE, idx |-> i + 2, direct |-> d,
               previous_symbol |-> charAt(r, i + 1), read |-> i + 1]
    ELSE IF c = CH_BACKSLASH
    THEN IF escapeMatches(charAt(r, i + 1), s)
         THEN [returns |-> TRUE, idx |-> i + 1, direct |-> d,
               previous_symbol |-> prev, read |-> i + 1]
         ELSE [returns |-> FALSE, idx |-> i + 2, direct |-> d,
               previous_symbol |-> charAt(r, i + 1), read |-> i + 1]
    ELSE IF c = s
    THEN [returns |-> TRUE, idx |-> i, direct |-> d,
          previous_symbol |-> prev, read |-> i]
    ELSE [returns |-> FALSE, idx |-> i + 1, direct |-> d,
          previous_symbol |-> c, read |-> i]

\* one iteration of the for loop at index i (i < strlen(rule)): whether it
\* returns, and otherwise the loop variables after the iteration's idx++
loopBody(r, s, i, d, prev) ==
    LET c == charAt(r, i) IN
    IF c = CH_CARET
    THEN [returns |-> FALSE, idx |-> i + 1, direct |-> FALSE,
          previous_symbol |-> c, read |-> i]
    ELSE IF c = CH_DOT
    THEN [returns |-> TRUE, idx |-> i, direct |-> d,
          previous_symbol |-> prev, read |-> i]
    ELSE IF c = CH_HYPHEN
    THEN IF alphabetScan(0, FALSE, prev, charAt(r, i + 1), s)
         THEN [returns |-> TRUE, idx |-> i + 1, direct |-> d,
               previous_symbol |-> prev, read |-> rangeRead(i, prev, s)]
         ELSE [returns |-> FALSE, idx |-> i + 2, direct |-> d,
               previous_symbol |-> charAt(r, i + 1), read |-> i + 1]
    ELSE IF c = CH_BACKSLASH
    THEN IF escapeMatches(charAt(r, i + 1), s)
         THEN [returns |-> TRUE, idx |-> i + 1, direct |-> d,
               previous_symbol |-> prev, read |-> i + 1]
         ELSE [returns |-> FALSE, idx |-> i + 2, direct |-> d,
               previous_symbol |-> charAt(r, i + 1), read |-> i + 1]
    ELSE IF c = s
    THEN [returns |-> TRUE, idx |-> i, direct |-> d,
          previous_symbol |-> prev, read |-> i]
    ELSE [returns |-> FALSE, idx |-> i + 1, direct |-> d,
          previous_symbol |-> c, read |-> i]

\* checkSymbol from index i on, with the loop variables d and prev
RECURSIVE scanFrom(_, _, _, _, _)
scanFrom(r, s, i, d, prev) ==
    IF i >= strlen(r) THEN ~ d
    ELSE LET b == loopBody(r, s, i, d, prev) IN
         IF b.returns THEN b.direct
         ELSE scanFrom(r, s, b.idx, b.direct, b.previous_symbol)

\* static bool checkSymbol(const char* rule, const char sym)
checkSymbol(r, s) == scanFrom(r, s, 0, TRUE, CH_NUL)

----------------------------------------------------------------------------
(* checkSymbol, one loop iteration per step *)

\* the characters the patterns are written over
PatternChars == { CH_a, CH_z, CH_5, CH_UNDERSCORE, CH_HYPHEN, CH_CARET, CH_DOT, CH_BACKSLASH }

\* the symbols checked
Symbols ==
    { CH_a + i : i \in 0 .. 25 } \cup
    { CH_A, CH_Z, CH_0, CH_5, CH_9, CH_UNDERSCORE, CH_HYPHEN, CH_CARET, CH_DOT,
      CH_BACKSLASH, CH_NUL, CH_SPACE, CH_TAB, CH_NEWLINE }

Patterns == UNION { [1 .. n -> PatternChars] : n \in 0 .. MaxLen }

EngineIdle ==
    /\ default_state = 0 /\ current_state = 0 /\ previous_state = 0
    /\ possible_states = {0} /\ edges = [q \in States |-> <<>>]
    /\ global_edges = <<>> /\ state_names = <<>> /\ start_state = 0
    /\ last = BuildCall("FSM")

\* entry of checkSymbol(rule, sym)
InitRule ==
    /\ EngineIdle
    /\ rule \in Patterns
    /\ sym \in Symbols
    /\ idx = 0
    /\ direct = TRUE
    /\ previous_symbol = CH_NUL
    /\ pc = "scan"
    /\ result = FALSE
    /\ max_read = 0

\* the iteration at idx, for the branch that the pattern character c selects
Iterate ==
    LET b == loopBody(rule, sym, idx, direct, previous_symbol) IN
    /\ pc = "scan"
    /\ idx < strlen(rule)
    /\ max_read' = IF b.read > max_read THEN b.read ELSE max_read
    /\ IF b.returns
       THEN /\ pc' = "done"
            /\ result' = b.direct
            /\ idx' = b.idx
            /\ UNCHANGED <<direct, previous_symbol>>
       ELSE /\ idx' = b.idx
            /\ direct' = b.direct
            /\ previous_symbol' = b.previous_symbol
            /\ UNCHANGED <<pc, result>>
    /\ UNCHANGED <<rule, sym>>
    /\ UNCHANGED engine_vars

Branch(c) == pc = "scan" /\ idx < strlen(rule) /\ charAt(rule, idx) = c

scanCaret == Branch(CH_CARET) /\ Iterate
scanDot == Branch(CH_DOT) /\ Iterate
scanRange == Branch(CH_HYPHEN) /\ Iterate
scanEscape == Branch(CH_BACKSLASH) /\ Iterate
scanLiteral ==
    /\ pc = "scan" /\ idx < strlen(rule)
    /\ charAt(rule, idx) \notin {CH_CARET, CH_DOT, CH_HYPHEN, CH_BACKSLASH}
    /\ Iterate

\* the loop ends: return !direct
scanEnd ==
    /\ pc = "scan"
    /\ idx >= strlen(rule)
    /\ pc' = "done"
    /\ result' = ~ direct
    /\ UNCHANGED <<rule, sym, idx, direct, previous_symbol, max_read>>
    /\ UNCHANGED engine_vars

NextRule ==
    \/ scanCaret
    \/ scanDot
    \/ scanRange
    \/ scanEscape
    \/ scanLiteral
    \/ scanEnd

SpecRule == InitRule /\ [][NextRule]_vars

----------------------------------------------------------------------------
(* checkSymbol on the patterns that are one escape *)

\* the characters after the backslash: the ten of the switch and one that
\* has no case
EscapeChars ==
    { CH_BACKSLASH, CH_CARET, CH_HYPHEN, CH_DOT, CH_w, CH_d, CH_s, CH_n, CH_t, CH_0, CH_a }

EscapePatterns == { <<CH_BACKSLASH, e>> : e \in EscapeChars }

\* every 7-bit character
AsciiSymbols == CH_NUL .. (CH_z + 5)

InitEscape ==
    /\ EngineIdle
    /\ rule \in EscapePatterns
    /\ sym \in AsciiSymbols
    /\ idx = 0
    /\ direct = TRUE
    /\ previous_symbol = CH_NUL
    /\ pc = "scan"
    /\ result = FALSE
    /\ max_read = 0

NextEscape ==
    \/ scanEscape
    \/ scanEnd

SpecEscape == InitEscape /\ [][NextEscape]_vars

----------------------------------------------------------------------------
(* Properties of the transition engine *)

IsProcess == last.op \in {"process", "processOut"}

\* the positions of the edges of a list whose predicate accepts c
Accepting(list, c) == { i \in 1 .. Len(list) : c \in list[i].rule }
LocalAccepting(s, c) == Accepting(edges[s], c)
GlobalAccepting(c) == Accepting(global_edges, c)
HasEdge(s, c) == LocalAccepting(s, c) # {} \/ GlobalAccepting(c) # {}
Least(S) == CHOOSE x \in S : \A y \in S : x <= y

\* the edge registered earliest among those accepting c: of the list of s,
\* and of the global list when no edge of s accepts
EarliestEdge(s, c) ==
    IF LocalAccepting(s, c) # {}
    THEN edges[s][Least(LocalAccepting(s, c))]
    ELSE global_edges[Least(GlobalAccepting(c))]

\* e is a local edge of s accepting c when there is one, and otherwise a
\* global edge accepting c
LocalBeforeGlobal(s, c, e) ==
    /\ LocalAccepting(s, c) # {} =>
           \E i \in LocalAccepting(s, c) : e = edges[s][i]
    /\ LocalAccepting(s, c) = {} =>
           \E j \in GlobalAccepting(c) : e = global_edges[j]

SilentBit(flags) == flags % 2 = 1

LastTaken == last.taken[Len(last.taken)]

\* C1: when no local edge of the state process was called in and no global
\* edge accepts the symbol, process returns false and current_state is the
\* state it was called in.
C1_NoMatch ==
    (IsProcess /\ ~ HasEdge(last.entry, last.cond)) =>
        (last.ret = FALSE /\ current_state = last.entry)

C1_Witness ==
    /\ IsProcess
    /\ edges[last.entry] # <<>>
    /\ global_edges # <<>>
    /\ ~ HasEdge(last.entry, last.cond)
    /\ last.entry # default_state
    /\ last.ret = FALSE
    /\ current_state = last.entry

\* C2: in every dispatch of process the edge taken is a local edge of the
\* dispatching state whenever one accepts the symbol, and a global edge only
\* when none does, whatever the dispatching state is; the state moves to the
\* destination of the edge taken.
C2_Priority ==
    IsProcess =>
        /\ HasEdge(last.entry, last.cond) =>
               /\ Len(last.taken) >= 1
               /\ LocalBeforeGlobal(last.entry, last.cond, last.taken[1])
        /\ Len(last.taken) = 2 =>
               LocalBeforeGlobal(default_state, last.cond, last.taken[2])
        /\ last.taken # <<>> => current_state = LastTaken.destination

C2_Witness ==
    /\ IsProcess
    /\ LocalAccepting(last.entry, last.cond) # {}
    /\ GlobalAccepting(last.cond) # {}
    /\ Len(last.taken) = 1
    /\ last.taken[1] = edges[last.entry][1]
    /\ global_edges[1].destination # last.taken[1].destination
    /\ current_state = edges[last.entry][1].destination

\* C3: the edge a dispatch takes is the one registered earliest among the
\* accepting edges of the state's list, and of the global list when no edge
\* of the state accepts; a later edge never pre-empts an earlier one.
C3_FirstMatch ==
    IsProcess =>
        /\ HasEdge(last.entry, last.cond) =>
               /\ Len(last.taken) >= 1
               /\ last.taken[1] = EarliestEdge(last.entry, last.cond)
        /\ Len(last.taken) = 2 =>
               last.taken[2] = EarliestEdge(default_state, last.cond)
        /\ Len(last.taken) = 1 => current_state = last.taken[1].destination

C3_Witness ==
    /\ IsProcess
    /\ Cardinality(LocalAccepting(last.entry, last.cond)) = 2
    /\ edges[last.entry][1].destination # edges[last.entry][2].destination
    /\ Len(last.taken) = 1
    /\ current_state = edges[last.entry][1].destination

\* C4: when the edge taken from S on x leads to default_state and the first
\* edge accepting x from default_state leads to T, one call process(x) in S
\* ends with current_state = T and previousState() = S.
C4_DefaultReentry ==
    (/\ IsProcess
     /\ HasEdge(last.entry, last.cond)
     /\ EarliestEdge(last.entry, last.cond).destination = default_state
     /\ HasEdge(default_state, last.cond)) =>
        /\ current_state = EarliestEdge(default_state, last.cond).destination
        /\ previousState = last.entry

C4_Witness ==
    /\ IsProcess
    /\ last.entry # default_state
    /\ HasEdge(last.entry, last.cond)
    /\ EarliestEdge(last.entry, last.cond).destination = default_state
    /\ LocalAccepting(default_state, last.cond) # {}
    /\ EarliestEdge(default_state, last.cond).destination # default_state
    /\ current_state = EarliestEdge(default_state, last.cond).destination
    /\ previousState = last.entry

\* C5: process returns true exactly when some edge taken in the call has the
\* SILENT bit clear; when every edge taken is SILENT the state still moves to
\* the destination of the last edge taken and process returns false.
C5_Silent ==
    IsProcess =>
        /\ last.ret = (\E i \in 1 .. Len(last.taken) : ~ SilentBit(last.taken[i].flags))
        /\ last.taken # <<>> => current_state = LastTaken.destination

C5_Witness ==
    /\ IsProcess
    /\ last.taken # <<>>
    /\ \A i \in 1 .. Len(last.taken) : SilentBit(last.taken[i].flags)
    /\ \E i \in 1 .. Len(last.taken) : last.taken[i].flags = BitOr(E_SILENT, E_GLOBAL)
    /\ current_state # last.entry
    /\ last.ret = FALSE

\* C6: after every process call previousState() is the state the call was
\* made in; the three-argument overload writes that state into ended_state
\* and the result of process into state_changed.
C6_PreviousState ==
    /\ IsProcess => previousState = last.entry
    /\ last.op = "processOut" =>
           /\ last.ended_state = last.entry
           /\ last.state_changed = processBody(last.entry, last.cond).passed

C6_Witness ==
    /\ last.op = "processOut"
    /\ Len(last.taken) = 2
    /\ current_state # last.entry
    /\ previousState = last.entry
    /\ last.ended_state = last.entry
    /\ last.state_changed = TRUE

\* C7: possible_states contains default_state, the start state, the source
\* and destination of every local edge and the destination of every global
\* edge.
C7_PossibleStates ==
    /\ default_state \in possible_states
    /\ start_state \in possible_states
    /\ \A s \in States : \A i \in 1 .. Len(edges[s]) :
           /\ edges[s][i].source \in possible_states
           /\ edges[s][i].destination \in possible_states
    /\ \A j \in 1 .. Len(global_edges) : global_edges[j].destination \in possible_states

C7_Witness ==
    /\ IsProcess
    /\ \E s \in States : \E i \in 1 .. Len(edges[s]) :
           /\ edges[s][i].source \notin {default_state, start_state}
           /\ edges[s][i].source \in possible_states
    /\ state_names # <<>>

\* C8: an edge registered through the value form with the value v accepts a
\* symbol c exactly when c = v.
C8_ValueForm ==
    last.op \in {"createEdgeValue", "createGlobalEdgeValue"} =>
        \A c \in Conds : (c \in last.edge.rule) <=> (c = last.value)

----------------------------------------------------------------------------
(* Properties of the rule matcher *)

AlphabetSet == { alphabet[i] : i \in 1 .. Len(alphabet) }
Position(c) == CHOOSE i \in 1 .. Len(alphabet) : alphabet[i] = c

\* C9: for X and Y of the alphabet with X not after Y, the pattern "X-Y"
\* accepts a symbol exactly when the symbol is of the alphabet and its
\* position lies between those of X and Y, in alphabet order.
C9_RangeMatching ==
    (/\ pc = "done"
     /\ Len(rule) = 3
     /\ rule[2] = CH_HYPHEN
     /\ rule[1] \in AlphabetSet
     /\ rule[3] \in AlphabetSet
     /\ Position(rule[1]) <= Position(rule[3])) =>
        (result = (/\ sym \in AlphabetSet
                   /\ Position(rule[1]) <= Position(sym)
                   /\ Position(sym) <= Position(rule[3])))

\* "a-5" accepts 'Z': after 'a' in the alphabet and before '5', though its
\* byte lies between neither
C9_Witness ==
    /\ pc = "done"
    /\ rule = <<CH_a, CH_HYPHEN, CH_5>>
    /\ sym = CH_Z
    /\ result = TRUE

\* C10: a range segment whose lower bound (the character before the hyphen)
\* or upper bound (the character after it) is not of the alphabet matches no
\* symbol: the iteration that scans it does not return.
C10_EmptyRange ==
    [][(/\ pc = "scan"
        /\ idx >= 1
        /\ idx + 1 < Len(rule)
        /\ charAt(rule, idx) = CH_HYPHEN
        /\ \/ charAt(rule, idx - 1) \notin AlphabetSet
           \/ charAt(rule, idx + 1) \notin AlphabetSet)
       => pc' = "scan"]_vars

\* the pattern positions (0-based) at which an iteration of the scan can
\* start: 0, and the position after each element; a hyphen or a backslash
\* takes the character after it with it
RECURSIVE ScanStarts(_, _)
ScanStarts(r, j) ==
    IF j >= Len(r) THEN {}
    ELSE {j} \cup ScanStarts(r, IF r[j + 1] \in {CH_HYPHEN, CH_BACKSLASH} THEN j + 2 ELSE j + 1)

\* the last character of r is c and is scanned as an element of its own
\* (it is neither escaped nor the upper bound of a range)
EndsWithUnescaped(r, c) ==
    /\ r # <<>>
    /\ r[Len(r)] = c
    /\ (Len(r) - 1) \in ScanStarts(r, 0)

WithoutLast(r) == SubSeq(r, 1, Len(r) - 1)

\* C11: a pattern ending in an unescaped hyphen accepts exactly the symbols
\* the pattern without that hyphen accepts.
C11_TrailingHyphen ==
    (pc = "done" /\ EndsWithUnescaped(rule, CH_HYPHEN)) =>
        (result = checkSymbol(WithoutLast(rule), sym))

\* C12: a pattern that is one backslash rejects every symbol, the null byte
\* included; a backslash that ends a pattern adds no match, the pattern
\* accepts what it accepts without it.
C12_TrailingBackslash ==
    /\ (pc = "done" /\ rule = <<CH_BACKSLASH>>) => (result = FALSE)
    /\ (pc = "done" /\ EndsWithUnescaped(rule, CH_BACKSLASH)) =>
           (result = checkSymbol(WithoutLast(rule), sym))

C12_Witness ==
    /\ pc = "done"
    /\ rule = <<CH_BACKSLASH>>
    /\ sym = CH_NUL
    /\ max_read = 1
    /\ result = FALSE

\* the pattern has no '^' that the scan takes for the negation mark
NoUnescapedCaret(r) == \A j \in ScanStarts(r, 0) : r[j + 1] # CH_CARET

\* C13: for a pattern P without an unescaped '^', the pattern "^" followed
\* by P accepts a symbol exactly when P rejects it.
C13_Negation ==
    (/\ pc = "done"
     /\ rule # <<>>
     /\ rule[1] = CH_CARET
     /\ NoUnescapedCaret(Tail(rule))) =>
        (result = ~ checkSymbol(Tail(rule), sym))

\* "^a" accepts 'z'
C13_Witness ==
    /\ pc = "done"
    /\ rule = <<CH_CARET, CH_a>>
    /\ sym = CH_z
    /\ result = TRUE
    /\ ~ checkSymbol(<<CH_a>>, CH_z)

\* a '^' was scanned before position i
NegatedBefore(r, i) == \E j \in ScanStarts(r, 0) : j < i /\ r[j + 1] = CH_CARET

\* C14: "." accepts every symbol, "^." rejects every symbol, and an
\* iteration that finds an unescaped '.' returns at once, true when no '^'
\* was scanned before it and false otherwise, whatever the symbol and the
\* rest of the pattern are.
C14_Dot ==
    /\ [](/\ (pc = "done" /\ rule = <<CH_DOT>>) => (result = TRUE)
          /\ (pc = "done" /\ rule = <<CH_CARET, CH_DOT>>) => (result = FALSE))
    /\ [][(pc = "scan" /\ idx < Len(rule) /\ charAt(rule, idx) = CH_DOT) =>
              (pc' = "done" /\ result' = ~ NegatedBefore(rule, idx))]_vars

C14_Witness ==
    /\ pc = "done"
    /\ rule = <<CH_CARET, CH_DOT, CH_a>>
    /\ sym = CH_a
    /\ idx = 1
    /\ result = FALSE

\* the symbols the escape of the character e stands for
EscapeClass(e) ==
    CASE e = CH_d -> CH_0 .. CH_9
      [] e = CH_w -> (CH_a .. CH_z) \cup (CH_A .. CH_Z)
      [] e = CH_s -> {CH_SPACE, CH_TAB}
      [] e = CH_n -> {CH_NEWLINE}
      [] e = CH_t -> {CH_TAB}
      [] e = CH_0 -> {CH_NUL}
      [] e \in {CH_BACKSLASH, CH_CARET, CH_HYPHEN, CH_DOT} -> {e}

\* C15: the pattern that is one escape accepts a symbol exactly when the
\* symbol is of the class of the escape: \d the digits, \w the ASCII
\* letters, \s space and tab, \n newline, \t tab, \0 the null byte, and
\* \\ \^ \- \. the character itself.
C15_Escapes ==
    (/\ pc = "done"
     /\ Len(rule) = 2
     /\ rule[1] = CH_BACKSLASH
     /\ rule[2] \in {CH_BACKSLASH, CH_CARET, CH_HYPHEN, CH_DOT,
                     CH_w, CH_d, CH_s, CH_n, CH_t, CH_0}) =>
        (result = (sym \in EscapeClass(rule[2])))

\* \s rejects the newline
C15_Witness ==
    /\ pc = "done"
    /\ rule = <<CH_BACKSLASH, CH_s>>
    /\ sym = CH_NEWLINE
    /\ result = FALSE

\* the state one call process(c) made in s ends in: at most two dispatches,
\* the second one only from default_state
StateAfter(s, c) ==
    IF ~ HasEdge(s, c) THEN s
    ELSE LET first == EarliestEdge(s, c).destination IN
         IF first = default_state /\ HasEdge(default_state, c)
         THEN EarliestEdge(default_state, c).destination
         ELSE first

\* C16: a call of process applies at most two transitions; the second one
\* is made only when the first lookup matched and led to default_state, and
\* no lookup follows it, also when it ends in default_state again; without a
\* first match nothing is applied, in default_state too.
C16_AtMostTwo ==
    IsProcess =>
        /\ Len(last.taken) <= 2
        /\ Len(last.taken) = 2 => last.taken[1].destination = default_state
        /\ ~ HasEdge(last.entry, last.cond) => last.taken = <<>>
        /\ current_state = StateAfter(last.entry, last.cond)

\* the first transition ends in a state other than default_state that has
\* an edge for the same symbol leading elsewhere, and the call stops there
C16_Witness ==
    /\ IsProcess
    /\ Len(last.taken) = 1
    /\ current_state # default_state
    /\ current_state = last.taken[1].destination
    /\ HasEdge(current_state, last.cond)
    /\ EarliestEdge(current_state, last.cond).destination # current_state

AllFlags == { E_NONE, E_SILENT, E_GLOBAL, BitOr(E_SILENT, E_GLOBAL) }

\* C17: the silent test of process is the SILENT bit for each of the four
\* flag values; a call that takes one edge returns false exactly when the
\* edge has the bit, so a global edge registered with no flags is reported
\* and one registered with SILENT is not.
C17_SilentBit ==
    /\ \A s \in States : \A i \in 1 .. Len(edges[s]) : edges[s][i].flags \in AllFlags
    /\ \A j \in 1 .. Len(global_edges) :
           global_edges[j].flags \in { E_GLOBAL, BitOr(E_SILENT, E_GLOBAL) }
    /\ \A f \in AllFlags : silentExpr(f) <=> (f \in { E_SILENT, BitOr(E_SILENT, E_GLOBAL) })
    /\ (IsProcess /\ Len(last.taken) = 1) =>
           /\ last.taken[1].flags = E_NONE => last.ret = TRUE
           /\ last.taken[1].flags = E_SILENT => last.ret = FALSE
           /\ last.taken[1].flags = E_GLOBAL => last.ret = TRUE
           /\ last.taken[1].flags = BitOr(E_SILENT, E_GLOBAL) => last.ret = FALSE

C17_Witness ==
    /\ IsProcess
    /\ Len(last.taken) = 1
    /\ last.taken[1].flags = E_GLOBAL
    /\ last.taken[1] = global_edges[1]
    /\ current_state # last.entry
    /\ last.ret = TRUE

\* C18: a call of process leaves default_state, possible_states, the edge
\* list of every state, the global edge list and state_names as they were.
C18_GraphUnchanged ==
    [][(last'.op \in {"process", "processOut"}) =>
           /\ default_state' = default_state
           /\ possible_states' = possible_states
           /\ edges' = edges
           /\ global_edges' = global_edges
           /\ state_names' = state_names]_vars

C18_Witness ==
    /\ IsProcess
    /\ current_state # last.entry
    /\ LastTaken \in { edges[last.entry][i] : i \in 1 .. Len(edges[last.entry]) }
    /\ state_names # <<>>
    /\ possible_states = States

\* C19: current_state and previous_state are always of possible_states;
\* after construction both are the start state, and default_state when the
\* constructor was given none.
C19_StatesPossible ==
    /\ current_state \in possible_states
    /\ previous_state \in possible_states
    /\ last.op = "FSM(default_state)" =>
           (current_state = default_state /\ previous_state = default_state)
    /\ last.op = "FSM(default_state, start_state)" =>
           (current_state = start_state /\ previous_state = start_state)

\* a global edge moved the machine to a state that neither the constructor
\* nor a local edge named
C19_Witness ==
    /\ IsProcess
    /\ current_state \notin {default_state, start_state}
    /\ \A s \in States : edges[s] = <<>>
    /\ previous_state # current_state
    /\ current_state \in possible_states

\* the iterations the scan can still make: none once it returned
ScanMeasure == IF pc = "done" THEN 0 ELSE Len(rule) + 2 - idx

\* C20: checkSymbol reads no character beyond the terminator of the rule,
\* also when the rule ends in an unescaped '-' or '\'; every iteration
\* moves the index forward, the index never passes the position after the
\* terminator, and every step lowers a measure that is never negative: the
\* call ends.
C20_BoundedScan ==
    /\ [](/\ max_read <= Len(rule)
          /\ idx <= Len(rule) + 1
          /\ ScanMeasure >= 0)
    /\ [][/\ ScanMeasure' < ScanMeasure
          /\ pc' = "scan" => idx' > idx]_vars

\* a rule that ends in '-' or '\' was scanned to its end: the terminator was
\* read, nothing behind it
C20_Witness ==
    /\ pc = "done"
    /\ Len(rule) >= 2
    /\ rule[Len(rule)] \in {CH_HYPHEN, CH_BACKSLASH}
    /\ EndsWithUnescaped(rule, rule[Len(rule)])
    /\ max_read = Len(rule)
    /\ idx = Len(rule) + 1

====
